---------------------------- MODULE Spec2Model ----------------------------
(***************************************************************************)
(* A model of audiobook.py: the Anchor time model, the file-name           *)
(* sanitizer, the AudiobookPart views, and the chapter merge / split       *)
(* algorithm of Audiobook.                                                  *)
(*                                                                          *)
(* Python strings are sequences of one-character strings.  Anchors of the  *)
(* merge/split model carry their time as integer hours, minutes and        *)
(* milliseconds.                                                            *)
(***************************************************************************)
EXTENDS Integers, Sequences, FiniteSets, TLC

VARIABLES
    \* Anchor._split_time applied to one raw time string
    timeIn, timeOut, timePc,
    \* Audiobook._split's output file name for one (idx, title)
    nameIdx, nameTitle, nameOut, namePc,
    \* one AudiobookPart, the heap of lists and Chapter objects, a caller
    lists, chapterObjs, partChapters, callerRefs, callerErr,
    \* one Audiobook and one run of create_chapters
    parts, pc, merged, idx, calls, err, outDir

timeVars == <<timeIn, timeOut, timePc>>
nameVars == <<nameIdx, nameTitle, nameOut, namePc>>
viewVars == <<lists, chapterObjs, partChapters, callerRefs, callerErr>>
bookVars == <<parts, pc, merged, idx, calls, err, outDir>>
vars == <<timeVars, nameVars, viewVars, bookVars>>

(***************************************************************************)
(* Bounds                                                                   *)
(***************************************************************************)
MaxMinuteDigits == 3
MaxTitleLen == 3
MaxNameIdx == 11
MaxParts == 3
MaxChapters == 4
MaxPartMarkers == 2
MaxViews == 1
MaxListLen == 3

(***************************************************************************)
(* Python string primitives                                                 *)
(***************************************************************************)
DigitChars == <<"0", "1", "2", "3", "4", "5", "6", "7", "8", "9">>

DigitSet == {DigitChars[i] : i \in 1..10}

\* characters str.strip() removes
Whitespace == {" ", "\t"}

DigitVal(c) == (CHOOSE i \in 1..10 : DigitChars[i] = c) - 1

RECURSIVE int(_)
\* int(s) of a string of decimal digits
int(s) ==
    IF Len(s) = 0 THEN 0
    ELSE int(SubSeq(s, 1, Len(s) - 1)) * 10 + DigitVal(s[Len(s)])

RECURSIVE str(_)
\* str(n) of a non-negative integer
str(n) ==
    IF n < 10 THEN <<DigitChars[n + 1]>>
    ELSE str(n \div 10) \o <<DigitChars[(n % 10) + 1]>>

RECURSIVE zfill(_, _)
\* s.zfill(width) of a digit string
zfill(s, width) ==
    IF Len(s) >= width THEN s ELSE zfill(<<"0">> \o s, width)

RECURSIVE lstrip(_)
lstrip(s) ==
    IF Len(s) > 0 /\ s[1] \in Whitespace THEN lstrip(Tail(s)) ELSE s

RECURSIVE rstrip(_)
rstrip(s) ==
    IF Len(s) > 0 /\ s[Len(s)] \in Whitespace
    THEN rstrip(SubSeq(s, 1, Len(s) - 1))
    ELSE s

\* s.strip()
strip(s) == rstrip(lstrip(s))

RECURSIVE split(_, _)
\* s.split(sep) for a one-character separator: the list of fields
split(s, sep) ==
    IF \A i \in 1..Len(s) : s[i] # sep THEN <<s>>
    ELSE LET k == CHOOSE i \in 1..Len(s) :
                      s[i] = sep /\ \A j \in 1..(i - 1) : s[j] # sep
         IN <<SubSeq(s, 1, k - 1)>> \o split(SubSeq(s, k + 1, Len(s)), sep)

(***************************************************************************)
(* Anchor._split_time                                                       *)
(***************************************************************************)
Raised == [raised |-> TRUE, hh |-> <<>>, mm |-> <<>>, ss |-> <<>>]

_split_time(time) ==
    LET time_split == split(strip(time), ":")
    IN IF Len(time_split) = 2
       THEN LET mm == time_split[1]
                ss == time_split[2]
            IN IF int(mm) >= 60
               THEN [raised |-> FALSE,
                     hh |-> zfill(str(int(mm) \div 60), 2),
                     mm |-> zfill(str(int(mm) % 60), 2),
                     ss |-> ss]
               ELSE [raised |-> FALSE, hh |-> <<"0", "0">>,
                     mm |-> mm, ss |-> ss]
       ELSE IF Len(time_split) = 3
       THEN [raised |-> FALSE, hh |-> time_split[1],
             mm |-> time_split[2], ss |-> time_split[3]]
       ELSE Raised

RECURSIVE DigitStrings(_)
\* the non-empty digit strings of at most n characters
DigitStrings(n) ==
    IF n = 0 THEN {}
    ELSE LET shorter == DigitStrings(n - 1)
         IN {<<d>> : d \in DigitSet}
            \cup shorter
            \cup {s \o <<d>> : s \in shorter, d \in DigitSet}

SecondsTexts == {<<"3", "0">>, <<"0", "0", ".", "0", "0", "0">>}

\* raw marker times: mm:ss, hh:mm:ss, and texts with 1 or 4 fields
TimeInputs ==
    {m \o <<":">> \o s : m \in DigitStrings(MaxMinuteDigits), s \in SecondsTexts}
    \cup {h \o <<":">> \o m \o <<":">> \o s :
            h \in {<<"0", "0">>, <<"1">>}, m \in {<<"0", "5">>, <<"5">>},
            s \in SecondsTexts}
    \cup {<<" ", "7", "5", ":", "3", "0", " ">>,
          <<"3", "0">>,
          <<"1", ":", "2", ":", "3", ":", "4">>}

TimeIdle ==
    /\ timeIn = <<>>
    /\ timeOut = Raised
    /\ timePc = "idle"

NameIdle ==
    /\ nameIdx = 0
    /\ nameTitle = <<>>
    /\ nameOut = <<>>
    /\ namePc = "idle"

ViewIdle ==
    /\ lists = <<>>
    /\ chapterObjs = <<>>
    /\ partChapters = 0
    /\ callerRefs = <<>>
    /\ callerErr = "none"

BookIdle ==
    /\ parts = <<>>
    /\ pc = "idle"
    /\ merged = <<>>
    /\ idx = 0
    /\ calls = <<>>
    /\ err = "none"
    /\ outDir = FALSE

TimeInit ==
    /\ timeIn \in TimeInputs
    /\ timeOut = Raised
    /\ timePc = "start"
    /\ NameIdle /\ ViewIdle /\ BookIdle

\* Anchor.__init__ line 144: the time fields are set from _split_time
AnchorInit ==
    /\ timePc = "start"
    /\ timeOut' = _split_time(timeIn)
    /\ timePc' = "done"
    /\ UNCHANGED <<timeIn, nameVars, viewVars, bookVars>>

TimeNext == AnchorInit

SpecTime == TimeInit /\ [][TimeNext]_vars

IsTwoField(time) == Len(split(strip(time), ":")) = 2

\* C5: for every two-field time string mm:ss the Anchor's hours are mm div 60
\* and its minutes mm mod 60, each held as a two-digit zero-padded string.
C5_TwoDigitFields ==
    (timePc = "done" /\ IsTwoField(timeIn)) =>
        LET m == int(split(strip(timeIn), ":")[1])
        IN /\ ~timeOut.raised
           /\ timeOut.hh = zfill(str(m \div 60), 2)
           /\ timeOut.mm = zfill(str(m % 60), 2)
           /\ Len(timeOut.hh) = 2
           /\ Len(timeOut.mm) = 2


(***************************************************************************)
(* Audiobook._sanitize_filename and the output file name of _split          *)
(***************************************************************************)
Letters == {"a", "b", "C", "M", "O", "e", "h", "n", "p", "r", "t", "y", "m"}

\* the characters \w matches
WordChars == Letters \cup DigitSet \cup {"_"}

RECURSIVE replace(_, _, _)
\* s.replace(old, new) for one-character old and new
replace(s, old, new) ==
    IF Len(s) = 0 THEN <<>>
    ELSE <<IF s[1] = old THEN new ELSE s[1]>> \o replace(Tail(s), old, new)

RECURSIVE re_sub(_)
\* re.sub(r'(?u)[^-\w.]', '', s)
re_sub(s) ==
    IF Len(s) = 0 THEN <<>>
    ELSE (IF s[1] \in WordChars \cup {"-", "."} THEN <<s[1]>> ELSE <<>>)
         \o re_sub(Tail(s))

\* the sanitizer without the strip() call
sanitize_no_strip(filename) == re_sub(replace(filename, " ", "_"))

_sanitize_filename(filename) == re_sub(replace(strip(filename), " ", "_"))

Mp3 == <<".", "m", "p", "3">>

\* the file name built from the title alone
out_file_name_by_title(i, title) == _sanitize_filename(title) \o Mp3

\* _split line 66, below the output directory:
\* self._sanitize_filename("{} ".format(idx) + chapter.title) + '.mp3'
out_file_name(i, title) == _sanitize_filename(str(i) \o <<" ">> \o title) \o Mp3

TitleChars == {" ", "\t", "a", "_", "-", ".", ":"}

RECURSIVE Texts(_)
\* the strings over TitleChars of at most n characters
Texts(n) ==
    IF n = 0 THEN {<<>>}
    ELSE LET shorter == Texts(n - 1)
         IN shorter \cup {s \o <<c>> : s \in shorter, c \in TitleChars}

\* "  My Chapter: One! "
ExampleTitle ==
    <<" ", " ", "M", "y", " ", "C", "h", "a", "p", "t", "e", "r", ":", " ",
      "O", "n", "e", "!", " ">>

NameInit ==
    /\ nameIdx \in 1..MaxNameIdx
    /\ nameTitle \in Texts(MaxTitleLen) \cup {ExampleTitle}
    /\ nameOut = <<>>
    /\ namePc = "start"
    /\ TimeIdle /\ ViewIdle /\ BookIdle

\* _split line 66: the output file name is built
BuildOutName ==
    /\ namePc = "start"
    /\ nameOut' = out_file_name(nameIdx, nameTitle)
    /\ namePc' = "done"
    /\ UNCHANGED <<nameIdx, nameTitle, timeVars, viewVars, bookVars>>

NameNext == BuildOutName

SpecName == NameInit /\ [][NameNext]_vars

RECURSIVE CleanChars(_)
\* every space an underscore, every other character outside [-\w.] dropped
CleanChars(s) ==
    IF Len(s) = 0 THEN <<>>
    ELSE LET c == s[Len(s)]
             front == CleanChars(SubSeq(s, 1, Len(s) - 1))
         IN IF c = " " THEN front \o <<"_">>
            ELSE IF c \in WordChars \/ c = "-" \/ c = "." THEN front \o <<c>>
            ELSE front

HasInk(s) == \E i \in 1..Len(s) : s[i] \notin Whitespace

Unknown == [filepath |-> "", hh |-> -1, mm |-> -1, ms |-> -1]

\* Anchor(filepath, time) for a well-formed time <<hours, minutes, millis>>
Anchor(filepath, t) == [filepath |-> filepath, hh |-> t[1], mm |-> t[2], ms |-> t[3]]

\* Anchor.time: the text handed to the splitter
time(a) == <<a.hh, a.mm, a.ms>>

\* int(mm) == 0 and math.isclose(0.000, float(ss), abs_tol=0.01)
is_start_anchor(a) == a.mm = 0 /\ a.ms <= 10

\* Chapter(title, start, end=Anchor.Unknown)
Chapter(title, start, end) == [title |-> title, start |-> start, end |-> end]

\* AudiobookPart._chapters: None when the file has no marker tag
None == [none |-> TRUE, list |-> <<>>]

List(l) == [none |-> FALSE, list |-> l]

(***************************************************************************)
(* Audiobook.merged_chapters                                                *)
(***************************************************************************)
RECURSIVE Concat(_)
\* lines 40-43 when every part can be iterated
Concat(ps) ==
    IF Len(ps) = 0 THEN <<>> ELSE ps[1]._chapters.list \o Concat(Tail(ps))

\* lines 45-47: zip(chapters[:-1], chapters[1:])
ZipMerge(chapters) ==
    [i \in 1..(Len(chapters) - 1) |->
        Chapter(chapters[i].title, chapters[i].start,
                IF is_start_anchor(chapters[i + 1].start)
                THEN Unknown
                ELSE chapters[i + 1].start)]

\* the merge with every end taken from the successor's start
merged_chapters_no_sentinel(ps) ==
    IF \E i \in 1..Len(ps) : ps[i]._chapters.none
    THEN [raised |-> "TypeError", chapters |-> <<>>]
    ELSE LET chapters == Concat(ps)
         IN IF Len(chapters) = 0
            THEN [raised |-> "IndexError", chapters |-> <<>>]
            ELSE [raised |-> "none",
                  chapters |->
                      [i \in 1..(Len(chapters) - 1) |->
                          Chapter(chapters[i].title, chapters[i].start,
                                  chapters[i + 1].start)]
                      \o <<Chapter(chapters[Len(chapters)].title,
                                   chapters[Len(chapters)].start, Unknown)>>]

merged_chapters(ps) ==
    IF \E i \in 1..Len(ps) : ps[i]._chapters.none
    THEN \* line 42: iter(None)
         [raised |-> "TypeError", chapters |-> <<>>]
    ELSE LET chapters == Concat(ps)
         IN IF Len(chapters) = 0
            THEN \* line 48: chapters[-1] of an empty list
                 [raised |-> "IndexError", chapters |-> <<>>]
            ELSE [raised |-> "none",
                  chapters |->
                      ZipMerge(chapters)
                      \o <<Chapter(chapters[Len(chapters)].title,
                                   chapters[Len(chapters)].start, Unknown)>>]

(***************************************************************************)
(* Audiobook._split                                                         *)
(***************************************************************************)
\* one run of the media splitter: -ss always, -to when an end is given
FFmpeg(input, out, ss, to) == [input |-> input, out |-> out, ss |-> ss, to |-> to]

\* _split without the branch that refuses two files
split_any_file(i, chapter) ==
    LET out_path == out_file_name(i, chapter.title)
    IN IF chapter.end = Unknown
       THEN [raised |-> FALSE,
             run |-> <<FFmpeg(chapter.start.filepath, out_path,
                              time(chapter.start), <<>>)>>]
       ELSE [raised |-> FALSE,
             run |-> <<FFmpeg(chapter.start.filepath, out_path,
                              time(chapter.start), <<time(chapter.end)>>)>>]

_split(i, chapter) ==
    LET out_path == out_file_name(i, chapter.title)
    IN IF chapter.end = Unknown
       THEN [raised |-> FALSE,
             run |-> <<FFmpeg(chapter.start.filepath, out_path,
                              time(chapter.start), <<>>)>>]
       ELSE IF chapter.start.filepath = chapter.end.filepath
       THEN [raised |-> FALSE,
             run |-> <<FFmpeg(chapter.start.filepath, out_path,
                              time(chapter.start), <<time(chapter.end)>>)>>]
       ELSE [raised |-> TRUE, run |-> <<>>]

(***************************************************************************)
(* Audiobooks: the parts as the constructor leaves them                     *)
(***************************************************************************)
\* os.listdir sorted: the part files have distinct names, in this order
PartFiles == <<"part1.mp3", "part2.mp3", "part3.mp3", "part4.mp3", "part5.mp3">>

\* markers (Name, Time): names as stripped by _read_chapters, times as
\* <<hours, minutes, millis>>: a file start, a start within the 0.01 s
\* tolerance, a time inside the file, a whole hour
MarkerList ==
    <<<<<<"C", "h">>, <<0, 0, 0>>>>,
      <<<<"C", "h">>, <<0, 5, 0>>>>,
      <<<<"1", " ", "a">>, <<1, 0, 0>>>>,
      <<<<"1", " ", "a">>, <<0, 0, 10>>>>>>

Markers == {MarkerList[i] : i \in 1..Len(MarkerList)}

RECURSIVE SeqsUpTo(_, _)
\* the sequences over S of at most n elements
SeqsUpTo(S, n) ==
    IF n = 0 THEN {<<>>}
    ELSE LET shorter == SeqsUpTo(S, n - 1)
         IN shorter \cup {q \o <<x>> : q \in shorter, x \in S}

\* what the tag reader finds in one file: no 'overdrive mediamarkers' frame,
\* or the frame's markers as a list of (Name, Time)
NoTag == [present |-> FALSE, markers |-> <<>>]

\* the tag contents with at most n markers
TagContents(n) ==
    {NoTag} \cup {[present |-> TRUE, markers |-> m] : m \in SeqsUpTo(Markers, n)}

\* AudiobookPart._read_chapters
_read_chapters(filepath, raw_markers) ==
    IF ~raw_markers.present THEN None
    ELSE List([i \in 1..Len(raw_markers.markers) |->
                 Chapter(raw_markers.markers[i][1],
                         Anchor(filepath, raw_markers.markers[i][2]),
                         Unknown)])

\* AudiobookPart(filepath) after __init__
AudiobookPart(filepath, raw_markers) ==
    [_filepath |-> filepath, _chapters |-> _read_chapters(filepath, raw_markers)]

BookInit ==
    /\ parts = <<>>
    /\ pc = "init"
    /\ merged = <<>>
    /\ idx = 0
    /\ calls = <<>>
    /\ err = "none"
    /\ outDir = FALSE
    /\ TimeIdle /\ NameIdle /\ ViewIdle

\* Audiobook.__init__ line 16: AudiobookPart(f) for the next file of _read_dir
ReadPart ==
    /\ pc = "init"
    /\ Len(parts) < MaxParts
    /\ \E raw_markers \in TagContents(MaxChapters - Len(Concat(parts))) :
          parts' = Append(parts,
                          AudiobookPart(PartFiles[Len(parts) + 1], raw_markers))
    /\ UNCHANGED <<pc, merged, idx, calls, err, outDir,
                   timeVars, nameVars, viewVars>>

\* Audiobook.__init__ line 16: the directory has no further part file
Constructed ==
    /\ pc = "init"
    /\ pc' = "start"
    /\ UNCHANGED <<parts, merged, idx, calls, err, outDir,
                   timeVars, nameVars, viewVars>>

\* create_chapters lines 88-91: merged_chapters(), _create_subpath, idx = 1
CreateChaptersBegin ==
    /\ pc = "start"
    /\ LET r == merged_chapters(parts)
       IN IF r.raised # "none"
          THEN /\ pc' = "raised"
               /\ err' = r.raised
               /\ UNCHANGED <<merged, idx, outDir>>
          ELSE /\ merged' = r.chapters
               /\ outDir' = TRUE
               /\ idx' = 1
               /\ pc' = "loop"
               /\ UNCHANGED err
    /\ UNCHANGED <<parts, calls, timeVars, nameVars, viewVars>>

\* create_chapters lines 92-94: one iteration, self._split(idx, chapter)
SplitChapter ==
    /\ pc = "loop"
    /\ idx <= Len(merged)
    /\ LET r == _split(idx, merged[idx])
       IN IF r.raised
          THEN /\ pc' = "raised"
               /\ err' = "NotImplementedError"
               /\ UNCHANGED <<calls, idx>>
          ELSE /\ calls' = calls \o r.run
               /\ idx' = idx + 1
               /\ UNCHANGED <<pc, err>>
    /\ UNCHANGED <<parts, merged, outDir, timeVars, nameVars, viewVars>>

\* create_chapters line 92: the loop is exhausted, the method returns
CreateChaptersReturn ==
    /\ pc = "loop"
    /\ idx > Len(merged)
    /\ pc' = "done"
    /\ UNCHANGED <<parts, merged, idx, calls, err, outDir,
                   timeVars, nameVars, viewVars>>

Next ==
    \/ ReadPart
    \/ Constructed
    \/ CreateChaptersBegin
    \/ SplitChapter
    \/ CreateChaptersReturn

Spec == BookInit /\ [][Next]_vars

(***************************************************************************)
(* Properties of merged_chapters and create_chapters                        *)
(***************************************************************************)
\* merged_chapters has returned its list (it is held in merged)
MergeReturned ==
    \/ pc \in {"loop", "done"}
    \/ pc = "raised" /\ err = "NotImplementedError"

\* the chapters a part contributes: none when it has no marker tag
Contributed(part) == IF part._chapters.none THEN <<>> ELSE part._chapters.list

RECURSIVE Chapters(_, _)
\* C[1..n]: the chapters of parts ps[k..], part order then marker order
Chapters(ps, k) ==
    IF k > Len(ps) THEN <<>> ELSE Contributed(ps[k]) \o Chapters(ps, k + 1)

AllTagged == \A k \in 1..Len(parts) : ~parts[k]._chapters.none

\* C1: over the concatenation C of all parts' chapters (n >= 1), merged
\* chapter i < n ends at Unknown when C[i+1].start is a start anchor and at
\* C[i+1].start otherwise; the last merged chapter ends at Unknown.
C1_MergedEnds ==
    MergeReturned =>
        LET C == Chapters(parts, 1)
            n == Len(C)
        IN /\ n >= 1
           /\ Len(merged) = n
           /\ \A i \in 1..(n - 1) :
                 merged[i].end = IF is_start_anchor(C[i + 1].start)
                                 THEN Unknown
                                 ELSE C[i + 1].start
           /\ merged[n].end = Unknown

\* the example of the merge: both kinds of end and the final chapter
C1_Witness ==
    /\ pc = "done"
    /\ Len(parts) = 2
    /\ Len(merged) = 4
    /\ merged[1].end = Anchor("part1.mp3", <<0, 5, 0>>)
    /\ merged[2].end = Unknown
    /\ merged[3].end = Anchor("part2.mp3", <<0, 5, 0>>)
    /\ merged[4].end = Unknown

\* C2: for every audiobook, one with no chapter at all included,
\* merged_chapters returns a sequence of the same length as the input
\* chapters, with the i-th title and start preserved.
C2_OneToOne ==
    (AllTagged /\ pc \notin {"init", "start"}) =>
        LET C == Chapters(parts, 1)
        IN /\ MergeReturned
           /\ Len(merged) = Len(C)
           /\ \A i \in 1..Len(C) :
                 /\ merged[i].title = C[i].title
                 /\ merged[i].start = C[i].start

\* C3: _split on a merged chapter runs the splitter once without an end time
\* when end is Unknown, once with start and end time when both are in one
\* file, and otherwise raises without running the splitter.
C3_SplitThreeWays ==
    [][(pc = "loop" /\ idx <= Len(merged)) =>
          LET chapter == merged[idx]
          IN IF chapter.end = Unknown
             THEN /\ Len(calls') = Len(calls) + 1
                  /\ SubSeq(calls', 1, Len(calls)) = calls
                  /\ calls'[Len(calls')].input = chapter.start.filepath
                  /\ calls'[Len(calls')].ss = time(chapter.start)
                  /\ calls'[Len(calls')].to = <<>>
                  /\ pc' # "raised"
             ELSE IF chapter.start.filepath = chapter.end.filepath
             THEN /\ Len(calls') = Len(calls) + 1
                  /\ SubSeq(calls', 1, Len(calls)) = calls
                  /\ calls'[Len(calls')].input = chapter.start.filepath
                  /\ calls'[Len(calls')].ss = time(chapter.start)
                  /\ calls'[Len(calls')].to = <<time(chapter.end)>>
                  /\ pc' # "raised"
             ELSE /\ calls' = calls
                  /\ pc' = "raised"
                  /\ err' = "NotImplementedError"]_vars

\* a run of the splitter with an end time in the same file, then the refusal
\* of a chapter spanning two files
C3_Witness ==
    /\ pc = "raised"
    /\ err = "NotImplementedError"
    /\ Len(calls) = 1
    /\ calls[1].to # <<>>
    /\ merged[2].start.filepath # merged[2].end.filepath

RECURSIVE Tagged(_)
\* the parts that carry a marker tag
Tagged(ps) ==
    IF Len(ps) = 0 THEN <<>>
    ELSE (IF ps[1]._chapters.none THEN <<>> ELSE <<ps[1]>>) \o Tagged(Tail(ps))

\* C4: a part without a marker tag contributes zero chapters: the merge over
\* a book holding such a part completes and gives what it gives with that
\* part left out.
C4_UntaggedPartIsEmpty ==
    (~AllTagged /\ pc \notin {"init", "start"}
                /\ merged_chapters(Tagged(parts)).raised = "none") =>
        /\ MergeReturned
        /\ merged = merged_chapters(Tagged(parts)).chapters

\* the whole hh:mm:ss offset is at the start of the file
AtFileStart(a) == a.hh = 0 /\ a.mm = 0 /\ a.ms <= 10

\* C8: a non-final merged chapter ends at Unknown only if the next chapter
\* starts at the very beginning of a file.
C8_UnknownOnlyAtFileStart ==
    MergeReturned =>
        LET C == Chapters(parts, 1)
        IN \A i \in 1..(Len(merged) - 1) :
              merged[i].end = Unknown => AtFileStart(C[i + 1].start)

RECURSIVE TotalChapters(_)
\* the chapter count across all parts
TotalChapters(ps) ==
    IF Len(ps) = 0 THEN 0
    ELSE Len(Contributed(ps[1])) + TotalChapters(Tail(ps))

NoCrossFile ==
    \A i \in 1..Len(merged) :
        merged[i].end = Unknown \/ merged[i].start.filepath = merged[i].end.filepath

\* C9: with no merged chapter spanning two files, create_chapters runs the
\* splitter once per merged chapter, in order, the k-th run for index k, each
\* run writing its own output path; on return the number of output files is
\* the chapter count across all parts.
C9_OneRunPerChapter ==
    /\ (pc \in {"init", "start"} \/ ~MergeReturned) => calls = <<>>
    /\ (MergeReturned /\ NoCrossFile) =>
          /\ pc # "raised"
          /\ Len(calls) = idx - 1
          /\ Len(calls) <= Len(merged)
          /\ \A k \in 1..Len(calls) :
                /\ calls[k].input = merged[k].start.filepath
                /\ calls[k].ss = time(merged[k].start)
                /\ SubSeq(calls[k].out, 1, Len(str(k))) = str(k)
                /\ calls[k].out[Len(str(k)) + 1] \notin DigitSet
          /\ \A j, k \in 1..Len(calls) : j # k => calls[j].out # calls[k].out
          /\ pc = "done" =>
                /\ Len(calls) = TotalChapters(parts)
                /\ Cardinality({calls[k].out : k \in 1..Len(calls)})
                      = TotalChapters(parts)

\* a book of two parts split into four files, two of them with equal titles
C9_Witness ==
    /\ pc = "done"
    /\ Len(parts) = 2
    /\ Len(calls) = 4
    /\ merged[1].title = merged[2].title
    /\ calls[1].to # <<>>

\* the parts whose first marker makes its predecessor span two files
Offending ==
    {k \in 1..Len(parts) :
        /\ Len(Contributed(parts[k])) > 0
        /\ \E h \in 1..(k - 1) : Len(Contributed(parts[h])) > 0
        /\ ~is_start_anchor(Contributed(parts[k])[1].start)}

\* the 0-based position in C of the first marker of part k
FirstMarkerIndex(k) == TotalChapters(SubSeq(parts, 1, k - 1))

\* C10: with at least one chapter in total, create_chapters raises the
\* not-supported error iff some part other than the one holding the first
\* chapter has a first marker that is not a start anchor; it raises at the
\* first such marker C[j], after splitter runs for merged chapters 1..j-1.
C10_RaisesIffOffendingPart ==
    (pc \in {"done", "raised"} /\ TotalChapters(parts) >= 1) =>
        /\ (err = "NotImplementedError") <=> (Offending # {})
        /\ err = "NotImplementedError" =>
              LET k == CHOOSE x \in Offending : \A y \in Offending : x <= y
              IN Len(calls) = FirstMarkerIndex(k) - 1

(***************************************************************************)
(* The views of one AudiobookPart and of its Audiobook.  Lists and Chapter  *)
(* objects live in a heap: lists[r] is the list object r, a sequence of     *)
(* object references; chapterObjs[c] is the Chapter object c.  lists[1] is  *)
(* Audiobook._parts (holding the part, object 1); partChapters is the       *)
(* reference of AudiobookPart._chapters, 0 for None.                        *)
(***************************************************************************)
\* a property that hands out the list itself
same_list(ls, r) == [lists |-> ls, ref |-> r]

\* self._chapters + []  and  self._parts + []: a new list, the same elements
list_plus_empty(ls, r) == [lists |-> Append(ls, ls[r]), ref |-> Len(ls) + 1]

\* AudiobookPart.chapters, lines 128-130
AudiobookPart_chapters(ls, r) == list_plus_empty(ls, r)

\* Audiobook.parts, lines 35-37
Audiobook_parts(ls, r) == list_plus_empty(ls, r)

\* values a caller assigns to Chapter.end_anchor
EndValues ==
    {Unknown, Anchor("part1.mp3", <<0, 5, 0>>), Anchor("part2.mp3", <<0, 0, 0>>)}

ViewInit ==
    /\ \E raw_markers \in {NoTag} \cup
                           {[present |-> TRUE, markers |-> SubSeq(MarkerList, 1, n)] :
                               n \in 0..MaxPartMarkers} :
          LET part == AudiobookPart("part1.mp3", raw_markers)
          IN IF part._chapters.none
             THEN /\ chapterObjs = <<>>
                  /\ lists = <<<<1>>>>
                  /\ partChapters = 0
             ELSE /\ chapterObjs = part._chapters.list
                  /\ lists = <<<<1>>, [i \in 1..Len(part._chapters.list) |-> i]>>
                  /\ partChapters = 2
    /\ callerRefs = <<>>
    /\ callerErr = "none"
    /\ TimeIdle /\ NameIdle /\ BookIdle

\* the caller reads part.chapters
GetChapters ==
    /\ Len(callerRefs) < MaxViews
    /\ IF partChapters = 0
       THEN \* None + []
            /\ callerErr' = "TypeError"
            /\ UNCHANGED <<lists, callerRefs>>
       ELSE LET r == AudiobookPart_chapters(lists, partChapters)
            IN /\ lists' = r.lists
               /\ callerRefs' = Append(callerRefs, [ref |-> r.ref, of |-> "chapters"])
               /\ UNCHANGED callerErr
    /\ UNCHANGED <<chapterObjs, partChapters, timeVars, nameVars, bookVars>>

\* the caller iterates the part (lines 125-126) and keeps what it yields:
\* list(part)
IterPart ==
    /\ Len(callerRefs) < MaxViews
    /\ IF partChapters = 0
       THEN \* iter(None)
            /\ callerErr' = "TypeError"
            /\ UNCHANGED <<lists, callerRefs>>
       ELSE /\ lists' = Append(lists, lists[partChapters])
            /\ callerRefs' = Append(callerRefs,
                                    [ref |-> Len(lists) + 1, of |-> "chapters"])
            /\ UNCHANGED callerErr
    /\ UNCHANGED <<chapterObjs, partChapters, timeVars, nameVars, bookVars>>

\* the caller reads book.parts
GetParts ==
    /\ Len(callerRefs) < MaxViews
    /\ LET r == Audiobook_parts(lists, 1)
       IN /\ lists' = r.lists
          /\ callerRefs' = Append(callerRefs, [ref |-> r.ref, of |-> "parts"])
    /\ UNCHANGED <<chapterObjs, partChapters, callerErr,
                   timeVars, nameVars, bookVars>>

\* the caller appends an object to a list it was handed
ListAppend ==
    /\ \E v \in 1..Len(callerRefs) :
          LET r == callerRefs[v].ref
          IN /\ Len(lists[r]) < MaxListLen
             /\ \E x \in IF callerRefs[v].of = "chapters"
                         THEN 1..Len(chapterObjs) ELSE {1} :
                   lists' = [lists EXCEPT ![r] = Append(@, x)]
    /\ UNCHANGED <<chapterObjs, partChapters, callerRefs, callerErr,
                   timeVars, nameVars, bookVars>>

\* the caller deletes an element of a list it was handed
ListRemove ==
    /\ \E v \in 1..Len(callerRefs) :
          LET r == callerRefs[v].ref
          IN \E i \in 1..Len(lists[r]) :
                lists' = [lists EXCEPT
                             ![r] = SubSeq(@, 1, i - 1) \o SubSeq(@, i + 1, Len(@))]
    /\ UNCHANGED <<chapterObjs, partChapters, callerRefs, callerErr,
                   timeVars, nameVars, bookVars>>

\* the caller assigns end_anchor of a Chapter found in a list it was handed:
\* the setter of lines 212-215
SetEndAnchor ==
    /\ \E v \in 1..Len(callerRefs) :
          /\ callerRefs[v].of = "chapters"
          /\ \E i \in 1..Len(lists[callerRefs[v].ref]), val \in EndValues :
                chapterObjs' =
                    [chapterObjs EXCEPT ![lists[callerRefs[v].ref][i]].end = val]
    /\ UNCHANGED <<lists, partChapters, callerRefs, callerErr,
                   timeVars, nameVars, bookVars>>

ViewNext ==
    \/ GetChapters
    \/ IterPart
    \/ GetParts
    \/ ListAppend
    \/ ListRemove
    \/ SetEndAnchor

SpecView == ViewInit /\ [][ViewNext]_vars

\* the part's own chapter sequence and the book's own part sequence
OwnLists == <<lists[1], IF partChapters = 0 THEN <<>> ELSE lists[partChapters]>>

\* C7 as stated: nothing a caller does to the returned sequences or to the
\* Chapter objects in them changes the part's chapter sequence or the title,
\* start or end of a chapter the part holds.
C7_ViewsAreSnapshots ==
    [][/\ OwnLists' = OwnLists
       /\ \A c \in 1..Len(chapterObjs) :
             /\ chapterObjs'[c].title = chapterObjs[c].title
             /\ chapterObjs'[c].start = chapterObjs[c].start
             /\ chapterObjs'[c].end = chapterObjs[c].end]_vars

\* C7 amended: the returned sequences are fresh lists, so appending to them
\* or removing from them never changes the part's own chapter sequence or
\* the book's own part sequence, and no caller operation changes a chapter's
\* title or start; the Chapter objects are shared, and assigning end_anchor
\* changes the end of the chapter the part holds.
C7_ListsAreCopies ==
    [][/\ OwnLists' = OwnLists
       /\ Len(chapterObjs') = Len(chapterObjs)
       /\ \A c \in 1..Len(chapterObjs) :
             /\ chapterObjs'[c].title = chapterObjs[c].title
             /\ chapterObjs'[c].start = chapterObjs[c].start
       /\ (\E c \in 1..Len(chapterObjs) : chapterObjs'[c].end # chapterObjs[c].end)
             => \E v \in 1..Len(callerRefs) :
                   callerRefs[v].of = "chapters"]_vars

\* the caller has changed a list it got from part.chapters and has assigned
\* an end through it; the part's own list still has its two chapters
C7_Witness ==
    /\ partChapters # 0
    /\ lists[partChapters] = <<1, 2>>
    /\ \E v \in 1..Len(callerRefs) :
          /\ callerRefs[v].of = "chapters"
          /\ lists[callerRefs[v].ref] = <<2, 2, 1>>
    /\ chapterObjs[2].end # Unknown
    /\ chapterObjs[2].title = MarkerList[2][1]
    /\ chapterObjs[2].start = Anchor("part1.mp3", MarkerList[2][2])

=============================================================================
